---------------------------- MODULE Spec2Model ----------------------------
(* A model of assemble.py, the assembler for a 4-register, 16-bit-word      *)
(* instruction set.  Text is modelled as sequences of one-character strings, *)
(* so that stripping, splitting, pattern matching and literal parsing are    *)
(* computed character by character, the way the Python code computes them.   *)
EXTENDS Integers, Sequences, FiniteSets, TLC

VARIABLES
    mode,            \* how main() gets its text: "file", "nofile" (unreadable), "input"
    supplied,        \* the text as supplied: the file's lines / the lines typed
    pc,              \* position of main()
    read_pos,        \* number of input() calls made by read_assembly_from_input
    empty_count,     \* read_assembly_from_input's empty_count
    assembly_lines,  \* main's assembly_lines (the reader's result)
    line_num,        \* parse_assembly's enumerate index of the last line handled
    instructions,    \* parse_assembly's instructions list
    diagnostics,     \* the "Line <n>: <message>" lines printed, as [line_num, kind]
    printed,         \* the hex stream printed by main
    tok,             \* operand-level calls: the token handed to the parser
    parsed           \* operand-level calls: what the parser returned

vars == <<mode, supplied, pc, read_pos, empty_count, assembly_lines, line_num,
          instructions, diagnostics, printed, tok, parsed>>

-----------------------------------------------------------------------------
(* Program constants *)

NUM_REGS == 4

MAX_IMMEDIATE == 15

OPCODES ==
    [and |-> 16, or |-> 18, add |-> 20, sub |-> 28, andi |-> 17, ori |-> 19,
     addi |-> 21, subi |-> 29, slt |-> 30, lw |-> 53, sw |-> 37, blt |-> 13,
     halt |-> 15]

(* The spelling of each key of OPCODES, as text. *)
MnemonicText ==
    [and  |-> <<"a","n","d">>,      or   |-> <<"o","r">>,
     add  |-> <<"a","d","d">>,      sub  |-> <<"s","u","b">>,
     andi |-> <<"a","n","d","i">>,  ori  |-> <<"o","r","i">>,
     addi |-> <<"a","d","d","i">>,  subi |-> <<"s","u","b","i">>,
     slt  |-> <<"s","l","t">>,      lw   |-> <<"l","w">>,
     sw   |-> <<"s","w">>,          blt  |-> <<"b","l","t">>,
     halt |-> <<"h","a","l","t">>]

(* OPCODE_HANDLERS: which parser each mnemonic is dispatched to. *)
OPCODE_HANDLERS ==
    [and |-> "r", or |-> "r", add |-> "r", sub |-> "r", slt |-> "r",
     andi |-> "imm_i", ori |-> "imm_i", addi |-> "imm_i", subi |-> "imm_i",
     blt |-> "imm_j", lw |-> "mem", sw |-> "mem", halt |-> "zero"]

-----------------------------------------------------------------------------
(* Text primitives: str.strip, str.split, str.casefold, int *)

UpperLetters ==
    <<"A","B","C","D","E","F","G","H","I","J","K","L","M",
      "N","O","P","Q","R","S","T","U","V","W","X","Y","Z">>

LowerLetters ==
    <<"a","b","c","d","e","f","g","h","i","j","k","l","m",
      "n","o","p","q","r","s","t","u","v","w","x","y","z">>

HexDigits == <<"0","1","2","3","4","5","6","7","8","9","a","b","c","d","e","f">>

IsSpace(c) == c \in {" ", "\t", "\n", "\r"}

IsDigit(c) == c \in {"0","1","2","3","4","5","6","7","8","9"}

CaseFoldChar(c) ==
    IF \E i \in 1..26 : UpperLetters[i] = c
    THEN LowerLetters[CHOOSE i \in 1..26 : UpperLetters[i] = c]
    ELSE c

casefold(s) == [i \in 1..Len(s) |-> CaseFoldChar(s[i])]

(* The value of a digit in a base, or -1 when it is no digit of that base. *)
FoldedDigitValue(f, base) ==
    IF \E i \in 1..base : HexDigits[i] = f
    THEN (CHOOSE i \in 1..base : HexDigits[i] = f) - 1
    ELSE -1

DigitValue(c, base) == FoldedDigitValue(CaseFoldChar(c), base)

RECURSIVE lstrip(_)
lstrip(s) ==
    IF s = <<>> THEN s
    ELSE IF IsSpace(Head(s)) THEN lstrip(Tail(s)) ELSE s

RECURSIVE rstrip(_)
rstrip(s) ==
    IF s = <<>> THEN s
    ELSE IF IsSpace(s[Len(s)]) THEN rstrip(SubSeq(s, 1, Len(s) - 1)) ELSE s

strip(s) == rstrip(lstrip(s))

(* Length of the longest prefix of s made of characters satisfying no-space. *)
RECURSIVE WordLen(_)
WordLen(s) ==
    IF s = <<>> \/ IsSpace(Head(s)) THEN 0 ELSE 1 + WordLen(Tail(s))

(* s.split(): the whitespace-separated words of s. *)
RECURSIVE split(_)
split(s) ==
    LET t == lstrip(s) IN
    IF t = <<>> THEN <<>>
    ELSE LET n == WordLen(t) IN
         <<SubSeq(t, 1, n)>> \o split(SubSeq(t, n + 1, Len(t)))

(* s.split(maxsplit=1): the first word, and the rest with its leading *)
(* whitespace removed (the rest is left out when it is empty).        *)
split_max1(s) ==
    LET t == lstrip(s) IN
    IF t = <<>> THEN <<>>
    ELSE LET n == WordLen(t)
             rest == lstrip(SubSeq(t, n + 1, Len(t)))
         IN IF rest = <<>> THEN <<SubSeq(t, 1, n)>>
            ELSE <<SubSeq(t, 1, n), rest>>

(* Index of the first occurrence of character c in s, 0 when absent. *)
RECURSIVE find(_, _)
find(s, c) ==
    IF s = <<>> THEN 0
    ELSE IF Head(s) = c THEN 1
    ELSE LET r == find(Tail(s), c) IN IF r = 0 THEN 0 ELSE r + 1

(* s.split(","): the pieces between commas, empty pieces included. *)
RECURSIVE split_comma(_)
split_comma(s) ==
    LET i == find(s, ",") IN
    IF i = 0 THEN <<s>>
    ELSE <<SubSeq(s, 1, i - 1)>> \o split_comma(SubSeq(s, i + 1, Len(s)))

(* Number of leading decimal digits of s. *)
RECURSIVE DigitRun(_)
DigitRun(s) ==
    IF s = <<>> \/ ~IsDigit(Head(s)) THEN 0 ELSE 1 + DigitRun(Tail(s))

(* Place value of a digit string in a base, underscores skipped. *)
RECURSIVE PlaceValue(_, _)
PlaceValue(s, base) ==
    IF s = <<>> THEN 0
    ELSE IF s[Len(s)] = "_" THEN PlaceValue(SubSeq(s, 1, Len(s) - 1), base)
    ELSE PlaceValue(SubSeq(s, 1, Len(s) - 1), base) * base
         + DigitValue(s[Len(s)], base)

(* int's digit grammar: digits of the base, single underscores only *)
(* between digits.                                                  *)
DigitsOK(s, base) ==
    /\ s # <<>>
    /\ \A i \in 1..Len(s) : s[i] = "_" \/ DigitValue(s[i], base) >= 0
    /\ s[1] # "_"
    /\ s[Len(s)] # "_"
    /\ \A i \in 1..(Len(s) - 1) : ~(s[i] = "_" /\ s[i + 1] = "_")

(* int(s, 0): [ok, value].  Surrounding whitespace and a sign are      *)
(* accepted; 0x, 0o and 0b select the base (one underscore may follow   *)
(* the prefix); without a prefix the literal is decimal, and a decimal  *)
(* literal that starts with 0 is accepted only when it is all zeros.    *)
IntResult(good, sign, digits, base) ==
    IF good THEN [ok |-> TRUE, value |-> sign * PlaceValue(digits, base)]
    ELSE [ok |-> FALSE, value |-> 0]

(* The digits of a literal, checked against its base. *)
IntDigits(sign, prefixed, base, digits) ==
    IntResult(/\ DigitsOK(digits, base)
              /\ (~prefixed /\ digits[1] = "0") => PlaceValue(digits, 10) = 0,
              sign, digits, base)

(* What follows the base prefix; one underscore may separate the two. *)
IntBody(sign, prefixed, base, body) ==
    IntDigits(sign, prefixed, base,
              IF prefixed /\ body # <<>> /\ body[1] = "_" THEN Tail(body)
              ELSE body)

IntPrefixed(sign, u, prefixed) ==
    IntBody(sign, prefixed,
            IF ~prefixed THEN 10
            ELSE IF CaseFoldChar(u[2]) = "x" THEN 16
            ELSE IF CaseFoldChar(u[2]) = "o" THEN 8 ELSE 2,
            IF ~prefixed THEN u ELSE SubSeq(u, 3, Len(u)))

IntUnsigned(sign, u) ==
    IntPrefixed(sign, u,
                Len(u) >= 2 /\ u[1] = "0"
                /\ CaseFoldChar(u[2]) \in {"x", "o", "b"})

IntSigned(t, signed) ==
    IntUnsigned(IF signed /\ t[1] = "-" THEN -1 ELSE 1,
                IF signed THEN Tail(t) ELSE t)

IntStripped(t) == IntSigned(t, t # <<>> /\ t[1] \in {"+", "-"})

int_base0(s) == IntStripped(strip(s))

(* int(s) for a string made of decimal digits. *)
int_dec(s) == PlaceValue(s, 10)

-----------------------------------------------------------------------------
(* Operands, instructions and the outcome of a parse *)

Register(n) == [kind |-> "Register", num |-> n]

Immediate(v) == [kind |-> "Immediate", num |-> v]

NoOperand == [kind |-> "none", num |-> 0]

Ok(v) == [ok |-> TRUE, err |-> "none", val |-> v]

(* A raised ValueError, named after its message. *)
ValueError(kind, v) == [ok |-> FALSE, err |-> kind, val |-> v]

NoComment == [present |-> FALSE, text |-> <<>>]

(* Comment(comment) if comment else None *)
CommentOf(c) ==
    IF c.has_comment /\ c.comment # <<>>
    THEN [present |-> TRUE, text |-> c.comment]
    ELSE NoComment

Instruction(type, opcode, operands, comment) ==
    [instr_type |-> type, opcode |-> opcode, operands |-> operands,
     comment |-> comment]

NoInstruction == Instruction("none", <<>>, <<>>, NoComment)

-----------------------------------------------------------------------------
(* Operand parsers *)

(* re.fullmatch of r followed by one or more digits *)
MatchesRegister(s) ==
    /\ Len(s) >= 2
    /\ s[1] = "r"
    /\ \A i \in 2..Len(s) : IsDigit(s[i])

(* A faulty parse_register: the range check left out. *)
RegisterOf_NoRangeCheck(num) == Ok(Register(num))

(* parse_register: the range check and the result *)
RegisterOf(num) ==
    IF ~(0 <= num /\ num < NUM_REGS)
    THEN ValueError("RegisterOutOfRange", NoOperand)
    ELSE Ok(Register(num))

parse_register(reg_str) ==
    IF ~MatchesRegister(reg_str)
    THEN ValueError("InvalidRegisterFormat", NoOperand)
    ELSE RegisterOf(int_dec(Tail(reg_str)))

(* parse_immediate: the except clause, the range check and the result *)
ImmediateOf(r) ==
    IF ~r.ok THEN ValueError("InvalidImmediate", NoOperand)
    ELSE IF ~(0 <= r.value /\ r.value <= MAX_IMMEDIATE)
    THEN ValueError("ImmediateOutOfRange", NoOperand)
    ELSE Ok(Immediate(r.value))

parse_immediate(imm_str) == ImmediateOf(int_base0(imm_str))

(* parse_operand, after op.strip() *)
OperandOf(op_str) ==
    IF op_str # <<>> /\ op_str[1] = "r"
    THEN parse_register(op_str)
    ELSE parse_immediate(op_str)

parse_operand(op) == OperandOf(strip(op))

-----------------------------------------------------------------------------
(* Line splitter *)

(* The text up to the first line break. *)
CutAt(s, nl) == IF nl = 0 THEN s ELSE SubSeq(s, 1, nl - 1)

(* parse_comment, for a search whose match starts at i (0: no match) *)
CommentAt(line, i) ==
    IF i = 0
    THEN [code |-> strip(line), has_comment |-> FALSE, comment |-> <<>>]
    ELSE [code |-> strip(SubSeq(line, 1, i - 1)),
          has_comment |-> TRUE,
          comment |-> strip(CutAt(SubSeq(line, i + 1, Len(line)),
                                  find(SubSeq(line, i + 1, Len(line)), "\n")))]

(* re.search of '#' followed by any run of characters: the comment starts *)
(* at the first '#' and runs to the end of the line (the run stops at a   *)
(* line break).                                                           *)
parse_comment(line) == CommentAt(line, find(line, "#"))

-----------------------------------------------------------------------------
(* Instruction-class handlers *)

(* [parse_operand(op.strip()) for op in operands_str.split(",")]: the   *)
(* operands in order, or the error of the first token that fails.       *)
RECURSIVE ParseOperandList(_)
Prepend(v, rest) == IF ~rest.ok THEN rest ELSE Ok(<<v>> \o rest.val)

OperandThenRest(first, pieces) ==
    IF ~first.ok THEN ValueError(first.err, <<>>)
    ELSE Prepend(first.val, ParseOperandList(Tail(pieces)))

ParseOperandList(pieces) ==
    IF pieces = <<>> THEN Ok(<<>>)
    ELSE OperandThenRest(parse_operand(strip(Head(pieces))), pieces)

(* parse_r_type: the check of the operands and the result *)
RTypeOperands(c, opcode, ops) ==
    IF ~ops.ok THEN ValueError(ops.err, NoInstruction)
    ELSE IF \/ Len(ops.val) # 3
            \/ \E i \in 1..Len(ops.val) : ops.val[i].kind # "Register"
    THEN ValueError("InvalidOperands", NoInstruction)
    ELSE Ok(Instruction("r", opcode, ops.val, CommentOf(c)))

(* parse_r_type, from code.casefold().split(maxsplit=1) on *)
RTypeParts(c, parts) ==
    IF Len(parts) # 2 THEN ValueError("MissingOperands", NoInstruction)
    ELSE RTypeOperands(c, parts[1], ParseOperandList(split_comma(parts[2])))

RTypeCode(c) == RTypeParts(c, split_max1(casefold(c.code)))

parse_r_type(line) == RTypeCode(parse_comment(line))

(* A faulty inner_parse: the operands counted, their types not checked. *)
ImmTypeOperands_NoTypeCheck(instr_type, c, opcode, ops) ==
    IF ~ops.ok THEN ValueError(ops.err, NoInstruction)
    ELSE IF Len(ops.val) # 3
    THEN ValueError("InvalidOperands", NoInstruction)
    ELSE Ok(Instruction(instr_type, opcode, ops.val, CommentOf(c)))

(* parse_imm_type's inner_parse: the check of the operands and the result *)
ImmTypeOperands(instr_type, c, opcode, ops) ==
    IF ~ops.ok THEN ValueError(ops.err, NoInstruction)
    ELSE IF \/ Len(ops.val) # 3
            \/ ops.val[1].kind # "Register"
            \/ ops.val[2].kind # "Register"
            \/ ops.val[3].kind # "Immediate"
    THEN ValueError("InvalidOperands", NoInstruction)
    ELSE Ok(Instruction(instr_type, opcode, ops.val, CommentOf(c)))

ImmTypeParts(instr_type, c, parts) ==
    IF Len(parts) # 2 THEN ValueError("MissingOperands", NoInstruction)
    ELSE ImmTypeOperands(instr_type, c, parts[1],
                         ParseOperandList(split_comma(parts[2])))

ImmTypeCode(instr_type, c) ==
    ImmTypeParts(instr_type, c, split_max1(casefold(c.code)))

parse_imm_type(instr_type, line) == ImmTypeCode(instr_type, parse_comment(line))

(* re.fullmatch of the memory operand pattern: optional digits, optional  *)
(* whitespace, an opening parenthesis, optional whitespace, r and digits, *)
(* optional whitespace, a closing parenthesis.  [matched, offset, base],  *)
(* offset empty when the optional group did not take part.                *)
NoMatch == [matched |-> FALSE, offset |-> <<>>, base |-> <<>>]

(* ... the closing parenthesis, after the m digits of the register in b *)
MatchClose(offset, b, m) ==
    IF m > 0 /\ lstrip(SubSeq(b, m + 2, Len(b))) = <<")">>
    THEN [matched |-> TRUE, offset |-> offset, base |-> SubSeq(b, 1, m + 1)]
    ELSE NoMatch

(* ... the register, in the text b that follows the parenthesis *)
MatchBase(offset, b) ==
    MatchClose(offset, b,
               IF b # <<>> /\ b[1] = "r" THEN DigitRun(Tail(b)) ELSE 0)

(* ... the opening parenthesis, in the text a that follows the digits *)
MatchOpen(offset, a) ==
    IF a # <<>> /\ a[1] = "(" THEN MatchBase(offset, lstrip(Tail(a)))
    ELSE NoMatch

MatchDigits(s, n) ==
    MatchOpen(SubSeq(s, 1, n), lstrip(SubSeq(s, n + 1, Len(s))))

MatchMemOperand(s) == MatchDigits(s, DigitRun(s))

(* A faulty parse_mem_type: the base register put before the data register. *)
MemBase_SwappedRegisters(c, opcode, dest, offset, base_reg) ==
    IF ~base_reg.ok THEN ValueError(base_reg.err, NoInstruction)
    ELSE Ok(Instruction("i", opcode, <<base_reg.val, dest, offset>>,
                        CommentOf(c)))

(* parse_mem_type: base_reg and the result *)
MemBase(c, opcode, dest, offset, base_reg) ==
    IF ~base_reg.ok THEN ValueError(base_reg.err, NoInstruction)
    ELSE Ok(Instruction("i", opcode, <<dest, base_reg.val, offset>>,
                        CommentOf(c)))

(* parse_mem_type: offset, then base_reg *)
MemOffset(c, opcode, dest, mm, offset) ==
    IF ~offset.ok THEN ValueError(offset.err, NoInstruction)
    ELSE MemBase(c, opcode, dest, offset.val, parse_register(mm.base))

(* parse_mem_type: the match of the memory operand, then the offset *)
MemMatch(c, opcode, dest, mm) ==
    IF ~mm.matched THEN ValueError("InvalidMemoryOperand", NoInstruction)
    ELSE MemOffset(c, opcode, dest, mm,
                   IF mm.offset # <<>> THEN parse_immediate(mm.offset)
                   ELSE Ok(Immediate(0)))

(* parse_mem_type: dest_reg, then the memory operand *)
MemDest(c, opcode, operands, dest_reg) ==
    IF ~dest_reg.ok THEN ValueError(dest_reg.err, NoInstruction)
    ELSE MemMatch(c, opcode, dest_reg.val, MatchMemOperand(strip(operands[2])))

(* parse_mem_type: the two operands *)
MemOperands(c, opcode, operands) ==
    IF Len(operands) # 2
    THEN ValueError("IncorrectNumberOfOperands", NoInstruction)
    ELSE MemDest(c, opcode, operands, parse_register(strip(operands[1])))

MemParts(c, parts) ==
    IF Len(parts) # 2 THEN ValueError("MissingOperands", NoInstruction)
    ELSE MemOperands(c, parts[1], split_comma(parts[2]))

MemCode(c) == MemParts(c, split_max1(casefold(c.code)))

parse_mem_type(line) == MemCode(parse_comment(line))

ZeroParts(c, parts) ==
    IF Len(parts) # 1 THEN ValueError("UnexpectedOperands", NoInstruction)
    ELSE Ok(Instruction("z", parts[1], <<>>, CommentOf(c)))

ZeroCode(c) == ZeroParts(c, split(casefold(c.code)))

parse_zero_operand_type(line) == ZeroCode(parse_comment(line))

(* OPCODE_HANDLERS.get(opcode): the key spelled opcode, "none" when absent. *)
HandlerKey(opcode) ==
    IF \E k \in DOMAIN MnemonicText : MnemonicText[k] = opcode
    THEN CHOOSE k \in DOMAIN MnemonicText : MnemonicText[k] = opcode
    ELSE "none"

(* handler(stripped_line), for the handler h of OPCODE_HANDLERS. *)
CallHandler(h, line) ==
    CASE h = "r"                -> parse_r_type(line)
      [] h \in {"imm_i", "imm_j"} ->
             parse_imm_type(IF h = "imm_i" THEN "i" ELSE "j", line)
      [] h = "mem"              -> parse_mem_type(line)
      [] h = "zero"             -> parse_zero_operand_type(line)

-----------------------------------------------------------------------------
(* Encoder *)

(* a | b on naturals *)
RECURSIVE BitOr(_, _)
BitOr(a, b) ==
    IF a = 0 THEN b
    ELSE IF b = 0 THEN a
    ELSE (IF a % 2 = 1 \/ b % 2 = 1 THEN 1 ELSE 0)
         + 2 * BitOr(a \div 2, b \div 2)

(* a << n *)
ShiftLeft(a, n) == a * 2 ^ n

(* A faulty assemble: rs and rt of the register-register layout exchanged. *)
Encode_SwappedShifts(self, machine) ==
    IF self.instr_type = "r"
    THEN Ok(BitOr(machine,
                  BitOr(BitOr(ShiftLeft(self.operands[1].num, 8),
                              ShiftLeft(self.operands[2].num, 10)),
                        ShiftLeft(self.operands[3].num, 12))))
    ELSE IF self.instr_type \in {"i", "j"}
    THEN Ok(BitOr(machine,
                  BitOr(BitOr(ShiftLeft(self.operands[1].num, 10),
                              ShiftLeft(self.operands[2].num, 12)),
                        ShiftLeft(self.operands[3].num, 6))))
    ELSE Ok(machine)

(* A faulty assemble: the immediate placed at bit 8, over rt's bits. *)
Encode_ImmediateAtBit8(self, machine) ==
    IF self.instr_type = "r"
    THEN Ok(BitOr(machine,
                  BitOr(BitOr(ShiftLeft(self.operands[1].num, 8),
                              ShiftLeft(self.operands[2].num, 12)),
                        ShiftLeft(self.operands[3].num, 10))))
    ELSE IF self.instr_type \in {"i", "j"}
    THEN Ok(BitOr(machine,
                  BitOr(BitOr(ShiftLeft(self.operands[1].num, 10),
                              ShiftLeft(self.operands[2].num, 12)),
                        ShiftLeft(self.operands[3].num, 8))))
    ELSE Ok(machine)

(* Instruction.assemble, with machine = OPCODES[self.opcode]: [ok, err, val]; *)
(* a missing operand is the IndexError Python raises.                         *)
Encode(self, machine) ==
    IF self.instr_type = "r"
    THEN IF Len(self.operands) < 3
         THEN [ok |-> FALSE, err |-> "IndexError", val |-> 0]
         ELSE Ok(BitOr(machine,
                       BitOr(BitOr(ShiftLeft(self.operands[1].num, 8),
                                   ShiftLeft(self.operands[2].num, 12)),
                             ShiftLeft(self.operands[3].num, 10))))
    ELSE IF self.instr_type \in {"i", "j"}
    THEN IF Len(self.operands) < 3
         THEN [ok |-> FALSE, err |-> "IndexError", val |-> 0]
         ELSE Ok(BitOr(machine,
                       BitOr(BitOr(ShiftLeft(self.operands[1].num, 10),
                                   ShiftLeft(self.operands[2].num, 12)),
                             ShiftLeft(self.operands[3].num, 6))))
    ELSE Ok(machine)

(* OPCODES[self.opcode]: a missing key is the KeyError Python raises. *)
EncodeKey(self, k) ==
    IF k = "none" THEN [ok |-> FALSE, err |-> "KeyError", val |-> 0]
    ELSE Encode(self, OPCODES[k])

assemble(self) == EncodeKey(self, HandlerKey(self.opcode))

(* f"0x{machine_code:04x}," *)
RECURSIVE HexText(_)
HexText(n) ==
    IF n < 16 THEN <<HexDigits[n + 1]>>
    ELSE HexText(n \div 16) \o <<HexDigits[(n % 16) + 1]>>

RECURSIVE ZeroPad(_, _)
ZeroPad(s, width) == IF Len(s) >= width THEN s ELSE ZeroPad(<<"0">> \o s, width)

FormatWord(machine_code) ==
    <<"0", "x">> \o ZeroPad(HexText(machine_code), 4) \o <<",">>

-----------------------------------------------------------------------------
(* Driver: one iteration of parse_assembly's loop *)

Diagnostic(n, kind) == [line_num |-> n, kind |-> kind]

(* A faulty driver: a failing line discards the instructions before it. *)
LoopResult_DropsEarlier(instrs, diags, n, r) ==
    IF r.ok
    THEN [instructions |-> Append(instrs, r.val), diagnostics |-> diags]
    ELSE [instructions |-> <<>>,
          diagnostics |-> Append(diags, Diagnostic(n, r.err))]

(* instructions.append(instruction), or the except clause's print *)
LoopResult(instrs, diags, n, r) ==
    IF r.ok
    THEN [instructions |-> Append(instrs, r.val), diagnostics |-> diags]
    ELSE [instructions |-> instrs,
          diagnostics |-> Append(diags, Diagnostic(n, r.err))]

(* handler = OPCODE_HANDLERS.get(opcode), and the call of it *)
LoopDispatch(instrs, diags, n, stripped_line, key) ==
    IF key = "none"
    THEN [instructions |-> instrs,
          diagnostics |-> Append(diags, Diagnostic(n, "UnknownOpcode"))]
    ELSE LoopResult(instrs, diags, n,
                    CallHandler(OPCODE_HANDLERS[key], stripped_line))

LoopStripped(instrs, diags, n, stripped_line) ==
    IF stripped_line = <<>> \/ stripped_line[1] = "#"
    THEN [instructions |-> instrs, diagnostics |-> diags]
    ELSE LoopDispatch(instrs, diags, n, stripped_line,
                      HandlerKey(casefold(split(stripped_line)[1])))

(* The body of "for line_num, line in enumerate(lines, 1)": the lists as  *)
(* the iteration leaves them.                                             *)
LoopBody(instrs, diags, n, line) == LoopStripped(instrs, diags, n, strip(line))

-----------------------------------------------------------------------------
(* Bounds of the inputs explored *)

MaxFileLines == 3

MaxTypedLines == 4

MaxRegTried == 4

MaxImmTried == 16

MaxOperands == 4

MaxDigits == 2

MaxHexDigits == 2

MaxOtherLen == 2

-----------------------------------------------------------------------------
(* The input texts explored *)

RMnemonics == {"and", "or", "add", "sub", "slt"}

IMnemonics == {"andi", "ori", "addi", "subi", "blt"}

MemMnemonics == {"lw", "sw"}

(* The decimal numeral of n, without leading zeros. *)
RECURSIVE Dec(_)
Dec(n) ==
    IF n < 10 THEN <<HexDigits[n + 1]>>
    ELSE Dec(n \div 10) \o <<HexDigits[(n % 10) + 1]>>

(* The hexadecimal literal of n: 0x and its digits. *)
Hex(n) == <<"0", "x">> \o HexText(n)

RegText(k) == <<"r">> \o Dec(k)

(* "m rd, rs, rt" *)
RLine(m, d, s, t) ==
    MnemonicText[m] \o <<" ">> \o RegText(d) \o <<",", " ">> \o RegText(s)
    \o <<",", " ">> \o RegText(t)

(* "m rt, rs, imm" with the immediate written as the text imm *)
ILine(m, t, s, imm) ==
    MnemonicText[m] \o <<" ">> \o RegText(t) \o <<",", " ">> \o RegText(s)
    \o <<",", " ">> \o imm

(* "m rD, off(rB)" with the offset written as the text off *)
MLine(m, d, off, b) ==
    MnemonicText[m] \o <<" ">> \o RegText(d) \o <<",", " ">> \o off
    \o <<"(">> \o RegText(b) \o <<")">>

(* "m x" with x the second operand as written *)
MLineRaw(m, d, x) ==
    MnemonicText[m] \o <<" ">> \o RegText(d) \o <<",", " ">> \o x

RECURSIVE JoinComma(_)
JoinComma(ts) ==
    IF ts = <<>> THEN <<>>
    ELSE IF Len(ts) = 1 THEN ts[1]
    ELSE ts[1] \o <<",", " ">> \o JoinComma(Tail(ts))

(* "m t1, t2, ..." (the mnemonic alone when there are no operands) *)
OpLine(m, ts) ==
    IF ts = <<>> THEN MnemonicText[m]
    ELSE MnemonicText[m] \o <<" ">> \o JoinComma(ts)

(* All sequences over S of length lo..hi. *)
SeqsUpTo(S, lo, hi) == UNION {[1..n -> S] : n \in lo..hi}

ImmTexts == {Dec(v) : v \in 0..MaxImmTried} \cup {Hex(v) : v \in 0..MaxImmTried}

(* Offsets as written: absent, a numeral, a numeral with a leading zero. *)
OffsetTexts ==
    {<<>>} \cup {Dec(v) : v \in 0..MaxImmTried}
    \cup {<<"0">> \o Dec(v) : v \in 0..MaxImmTried}

(* Second operands of lw/sw that are not of the shape offset(register). *)
BadMemOperands ==
    {<<"r","0">>, <<"3">>, <<"3","(","r","0">>, <<"3","r","0",")">>,
     <<"3","[","r","0","]">>, <<"0","x","3","(","r","0",")">>,
     <<"(","3",")">>, <<"3","(","r","0",")","x">>, <<"3","(","r",")">>,
     <<"-","1","(","r","0",")">>}

(* Operand tokens of every kind: registers in and out of range, immediates *)
(* in and out of range, text that is neither.                              *)
OperandTokens == {<<"r","1">>, <<"r","4">>, <<"5">>, <<"1","6">>, <<"x">>}

OperandLists == SeqsUpTo(OperandTokens, 0, MaxOperands)

(* Code texts without '#', and comment texts, for lines with a comment. *)
CodeTexts ==
    {RLine("add", 0, 1, 2), RLine("add", 0, 9, 1), ILine("addi", 1, 0, <<"5">>),
     MLine("lw", 2, <<"3">>, 0), <<"h","a","l","t">>, <<"h","a","l","t"," ">>,
     <<"H","A","L","T">>, <<"f","o","o"," ","r","0">>, <<"a","d","d">>,
     <<"h","a","l","t"," ","r","0">>, <<>>, <<" ">>}

CommentTexts == {<<>>, <<"x">>, <<" ","s","u","m">>, <<" ","a"," ","#","b">>}

CommentLine(c, t) == c \o <<"#">> \o t

FormattingLines ==
    {<<" ","A","D","D","\t","R","0",",","R","1"," ",","," ","r","2"," ">>,
     <<"l","w"," ","r","2",","," ","3"," ","("," ","r","0"," ",")">>,
     <<"a","d","d","i"," ","r","1",",","r","0",",","0","X","F">>,
     <<"a","d","d","i"," ","r","1",",","r","0",",","-","1">>,
     <<"l","w"," ","r","1",","," ","3","(","r","0",")",","," ","r","2">>,
     <<"l","w">>}

(* Every line tried on its own. *)
SingleLines ==
    {RLine(m, d, s, t) : m \in RMnemonics,
                         d \in 0..MaxRegTried, s \in 0..MaxRegTried,
                         t \in 0..MaxRegTried}
    \cup {ILine(m, t, s, i) : m \in IMnemonics,
                              t \in 0..MaxRegTried, s \in 0..MaxRegTried,
                              i \in ImmTexts}
    \cup {MLine(m, d, o, b) : m \in MemMnemonics,
                              d \in 0..MaxRegTried, o \in OffsetTexts,
                              b \in 0..MaxRegTried}
    \cup {MLineRaw(m, d, x) : m \in MemMnemonics, d \in {0, MaxRegTried},
                              x \in BadMemOperands}
    \cup {OpLine(m, ts) : m \in {"add", "addi"}, ts \in OperandLists}
    \cup CodeTexts
    \cup {CommentLine(c, t) : c \in CodeTexts, t \in CommentTexts}
    \cup FormattingLines

(* Lines combined into files of several lines. *)
FilePool ==
    {<<>>, <<"#"," ","c">>, <<"h","a","l","t">>,
     <<"f","o","o"," ","r","0">>, RLine("add", 0, 9, 1), RLine("add", 0, 1, 2),
     MLine("lw", 2, <<"3">>, 0)}

(* Lines typed at the prompt. *)
TypedPool ==
    {<<>>, <<"h","a","l","t">>, <<"f","o","o"," ","r","0">>, RLine("add", 0, 9, 1)}

FileTexts == SeqsUpTo(FilePool, 0, MaxFileLines) \cup {<<l>> : l \in SingleLines}

TypedTexts == SeqsUpTo(TypedPool, 0, MaxTypedLines)

-----------------------------------------------------------------------------
(* main(): read the text, parse it line by line, print the words *)

NotCalled == [called |-> FALSE, r |-> Ok(NoOperand)]

NoToken == [fn |-> "none", text |-> <<>>]

Init ==
    /\ mode \in {"file", "nofile", "input"}
    /\ supplied \in (CASE mode = "file"   -> FileTexts
                       [] mode = "nofile" -> {<<>>}
                       [] mode = "input"  -> TypedTexts)
    /\ pc = "start"
    /\ read_pos = 0
    /\ empty_count = 0
    /\ assembly_lines = <<>>
    /\ line_num = 0
    /\ instructions = <<>>
    /\ diagnostics = <<>>
    /\ printed = <<>>
    /\ tok = NoToken
    /\ parsed = NotCalled

(* read_assembly_from_file: file.readlines() *)
ReadFile ==
    /\ pc = "start"
    /\ mode = "file"
    /\ assembly_lines' = [i \in 1..Len(supplied) |-> supplied[i] \o <<"\n">>]
    /\ pc' = "parse"
    /\ UNCHANGED <<mode, supplied, read_pos, empty_count, line_num,
                   instructions, diagnostics, printed, tok, parsed>>

(* read_assembly_from_file: IOError, sys.exit(1) *)
SourceUnavailable ==
    /\ pc = "start"
    /\ mode = "nofile"
    /\ pc' = "exit1"
    /\ UNCHANGED <<mode, supplied, read_pos, empty_count, assembly_lines,
                   line_num, instructions, diagnostics, printed, tok, parsed>>

(* read_assembly_from_input: the prompt, lines = [], empty_count = 0 *)
StartInput ==
    /\ pc = "start"
    /\ mode = "input"
    /\ pc' = "reading"
    /\ assembly_lines' = <<>>
    /\ empty_count' = 0
    /\ UNCHANGED <<mode, supplied, read_pos, line_num, instructions,
                   diagnostics, printed, tok, parsed>>

(* read_assembly_from_input: one iteration of "while True" *)
InputLine ==
    /\ pc = "reading"
    /\ read_pos < Len(supplied)
    /\ read_pos' = read_pos + 1
    /\ LET line == supplied[read_pos + 1] IN
       IF strip(line) = <<>>
       THEN /\ empty_count' = empty_count + 1
            /\ pc' = IF empty_count + 1 >= 2 THEN "parse" ELSE "reading"
            /\ UNCHANGED assembly_lines
       ELSE /\ empty_count' = 0
            /\ assembly_lines' = Append(assembly_lines, line)
            /\ pc' = "reading"
    /\ UNCHANGED <<mode, supplied, line_num, instructions, diagnostics,
                   printed, tok, parsed>>

(* read_assembly_from_input: input() at the end of the text, EOFError *)
InputEOF ==
    /\ pc = "reading"
    /\ read_pos = Len(supplied)
    /\ pc' = "eof_error"
    /\ UNCHANGED <<mode, supplied, read_pos, empty_count, assembly_lines,
                   line_num, instructions, diagnostics, printed, tok, parsed>>

(* parse_assembly: one iteration of the loop over the lines *)
ParseLine ==
    /\ pc = "parse"
    /\ line_num < Len(assembly_lines)
    /\ line_num' = line_num + 1
    /\ LET r == LoopBody(instructions, diagnostics, line_num + 1,
                         assembly_lines[line_num + 1])
       IN /\ instructions' = r.instructions
          /\ diagnostics' = r.diagnostics
    /\ UNCHANGED <<mode, supplied, pc, read_pos, empty_count, assembly_lines,
                   printed, tok, parsed>>

(* parse_assembly returns; main prints the notice or the header *)
ParseReturn ==
    /\ pc = "parse"
    /\ line_num = Len(assembly_lines)
    /\ pc' = IF instructions = <<>> THEN "no_valid" ELSE "emit"
    /\ UNCHANGED <<mode, supplied, read_pos, empty_count, assembly_lines,
                   line_num, instructions, diagnostics, printed, tok, parsed>>

(* main: one iteration of "for instr in instructions" *)
EmitWord ==
    /\ pc = "emit"
    /\ Len(printed) < Len(instructions)
    /\ LET machine_code == assemble(instructions[Len(printed) + 1]) IN
       IF machine_code.ok
       THEN /\ printed' = Append(printed, FormatWord(machine_code.val))
            /\ pc' = "emit"
       ELSE /\ printed' = printed
            /\ pc' = "crash"
    /\ UNCHANGED <<mode, supplied, read_pos, empty_count, assembly_lines,
                   line_num, instructions, diagnostics, tok, parsed>>

(* main: the closing print() *)
EmitEnd ==
    /\ pc = "emit"
    /\ Len(printed) = Len(instructions)
    /\ pc' = "done"
    /\ UNCHANGED <<mode, supplied, read_pos, empty_count, assembly_lines,
                   line_num, instructions, diagnostics, printed, tok, parsed>>

Next ==
    \/ ReadFile
    \/ SourceUnavailable
    \/ StartInput
    \/ InputLine
    \/ InputEOF
    \/ ParseLine
    \/ ParseReturn
    \/ EmitWord
    \/ EmitEnd

Spec == Init /\ [][Next]_vars

-----------------------------------------------------------------------------
(* The operand parsers called on their own *)

DecimalChars == {"0","1","2","3","4","5","6","7","8","9"}

HexChars == DecimalChars \cup {"a","b","c","d","e","f","F"}

OtherChars == {"r", "0", "1", "4", "x", "-", "+", "_", " ", "f", "b", "o"}

DecimalTokens == SeqsUpTo(DecimalChars, 1, MaxDigits)

HexTokens ==
    {<<"0", p>> \o h : p \in {"x", "X"}, h \in SeqsUpTo(HexChars, 1, MaxHexDigits)}

OtherTokens == SeqsUpTo(OtherChars, 0, MaxOtherLen)

Tokens ==
    DecimalTokens \cup HexTokens \cup OtherTokens
    \cup {RegText(k) : k \in 0..MaxRegTried}

InitOperand ==
    /\ mode = "none"
    /\ supplied = <<>>
    /\ pc = "call"
    /\ read_pos = 0
    /\ empty_count = 0
    /\ assembly_lines = <<>>
    /\ line_num = 0
    /\ instructions = <<>>
    /\ diagnostics = <<>>
    /\ printed = <<>>
    /\ tok \in [fn : {"parse_immediate", "parse_register", "parse_operand"},
                text : Tokens]
    /\ parsed = NotCalled

Returned(r) ==
    /\ parsed' = [called |-> TRUE, r |-> r]
    /\ pc' = "returned"
    /\ UNCHANGED <<mode, supplied, read_pos, empty_count, assembly_lines,
                   line_num, instructions, diagnostics, printed, tok>>

CallParseImmediate ==
    /\ pc = "call"
    /\ tok.fn = "parse_immediate"
    /\ Returned(parse_immediate(tok.text))

CallParseRegister ==
    /\ pc = "call"
    /\ tok.fn = "parse_register"
    /\ Returned(parse_register(tok.text))

CallParseOperand ==
    /\ pc = "call"
    /\ tok.fn = "parse_operand"
    /\ Returned(parse_operand(tok.text))

NextOperand == CallParseImmediate \/ CallParseRegister \/ CallParseOperand

SpecOperand == InitOperand /\ [][NextOperand]_vars

-----------------------------------------------------------------------------
(* Vocabulary of the claims *)

(* The spec's error kinds, as sets of the code's messages. *)
MalformedOperand == {"InvalidRegisterFormat", "InvalidImmediate"}

OperandOutOfRange == {"RegisterOutOfRange", "ImmediateOutOfRange"}

OperandArityMismatch == {"MissingOperands", "InvalidOperands"}

OperandTypeMismatch == {"InvalidOperands"}

MalformedMemoryOperand == {"InvalidMemoryOperand"}

(* A token made of plain decimal digits. *)
IsPlainDecimal(t) == t # <<>> /\ \A i \in 1..Len(t) : t[i] \in DecimalChars

(* A token made of the prefix 0x and hexadecimal digits. *)
IsHexLiteral(t) ==
    /\ Len(t) >= 3
    /\ t[1] = "0"
    /\ t[2] = "x"
    /\ \A i \in 3..Len(t) : DigitValue(t[i], 16) >= 0

(* The value such a token denotes. *)
LiteralValue(t) ==
    IF IsPlainDecimal(t) THEN PlaceValue(t, 10)
    ELSE PlaceValue(SubSeq(t, 3, Len(t)), 16)

-----------------------------------------------------------------------------
(* C4: parse_immediate, on every token made of plain decimal digits or of  *)
(* 0x and hexadecimal digits and denoting v, returns Immediate(v) when     *)
(* 0 <= v <= 15 and fails with the out-of-range error otherwise; it fails  *)
(* with the malformed-operand error only for text of neither form.         *)
C4_ImmediateOfEveryLiteral ==
    (parsed.called /\ tok.fn = "parse_immediate") =>
        /\ (IsPlainDecimal(tok.text) \/ IsHexLiteral(tok.text)) =>
              IF LiteralValue(tok.text) <= 15
              THEN parsed.r = Ok(Immediate(LiteralValue(tok.text)))
              ELSE ~parsed.r.ok /\ parsed.r.err = "ImmediateOutOfRange"
        /\ (~parsed.r.ok /\ parsed.r.err = "InvalidImmediate") =>
              ~(IsPlainDecimal(tok.text) \/ IsHexLiteral(tok.text))

-----------------------------------------------------------------------------
(* Vocabulary of the claims about whole lines *)

(* A line the driver does not attempt: blank, or a comment alone. *)
Skippable(line) == strip(line) = <<>> \/ strip(line)[1] = "#"

(* parse_assembly has returned and main has run to its end. *)
Finished == pc \in {"done", "no_valid"}

(* main has run to its end on a file holding the one line l. *)
FinishedOn(l) == Finished /\ mode = "file" /\ supplied = <<l>>

(* What the driver makes of line i of its input, taken alone. *)
Alone(i) == LoopBody(<<>>, <<>>, i, assembly_lines[i])

(* What the driver makes of lines 1..k, each taken alone, in order. *)
RECURSIVE YieldUpTo(_)
YieldUpTo(k) ==
    IF k = 0 THEN [instructions |-> <<>>, diagnostics |-> <<>>]
    ELSE LET before == YieldUpTo(k - 1)
             this == Alone(k)
         IN [instructions |-> before.instructions \o this.instructions,
             diagnostics |-> before.diagnostics \o this.diagnostics]

(* The word a layout gives, as the hex text main prints. *)
RWord(m, rd, rs, rt) ==
    FormatWord(BitOr(OPCODES[m],
                     BitOr(BitOr(ShiftLeft(rd, 8), ShiftLeft(rs, 12)),
                           ShiftLeft(rt, 10))))

IWord(m, rt, rs, imm) ==
    FormatWord(BitOr(OPCODES[m],
                     BitOr(BitOr(ShiftLeft(rt, 10), ShiftLeft(rs, 12)),
                           ShiftLeft(imm, 6))))

StartsWith(s, prefix) ==
    Len(s) >= Len(prefix) /\ SubSeq(s, 1, Len(prefix)) = prefix

ValidRegs == 0..(NUM_REGS - 1)

ValidImms == 0..MAX_IMMEDIATE

-----------------------------------------------------------------------------
(* C1: parse_assembly is fail-soft with per-line isolation.  Every line    *)
(* that is neither blank nor a comment alone yields exactly one of an      *)
(* Instruction or a diagnostic, a blank or comment line yields neither, no *)
(* line keeps a later line from being processed, and the lists built are   *)
(* the in-order concatenation of what each line yields taken alone.        *)
C1_FailSoftPerLine ==
    (pc \in {"parse", "emit", "done", "no_valid"}) =>
        /\ \A i \in 1..line_num :
              LET this == Alone(i) IN
              IF Skippable(assembly_lines[i])
              THEN this.instructions = <<>> /\ this.diagnostics = <<>>
              ELSE Len(this.instructions) + Len(this.diagnostics) = 1
        /\ LET all == YieldUpTo(line_num) IN
              /\ instructions = all.instructions
              /\ diagnostics = all.diagnostics
        /\ (pc # "parse") => line_num = Len(assembly_lines)

(* A valid line, a malformed line, a valid line: one diagnostic, for line 2, *)
(* and the two instructions around it.                                      *)
C1_Witness ==
    /\ pc = "done"
    /\ Len(assembly_lines) = 3
    /\ diagnostics = <<Diagnostic(2, "RegisterOutOfRange")>>
    /\ Len(instructions) = 2
    /\ Len(printed) = 2

-----------------------------------------------------------------------------
(* C2: the word of every line that assembles is the fixed layout of its    *)
(* class: opcode | rd<<8 | rs<<12 | rt<<10 for "m rd, rs, rt",             *)
(* opcode | rt<<10 | rs<<12 | imm<<6 for "m rt, rs, imm" and, with rt the  *)
(* data register, rs the base and imm the offset, for "m rD, off(rB)", and *)
(* the opcode alone for halt.                                              *)
C2_WordIsLayout ==
    (Finished /\ mode = "file" /\ Len(supplied) = 1) =>
        /\ \A m \in RMnemonics :
              StartsWith(supplied[1], MnemonicText[m] \o <<" ">>) =>
                 \A d \in ValidRegs, s \in ValidRegs, t \in ValidRegs :
                    supplied[1] = RLine(m, d, s, t) =>
                       printed = <<RWord(m, d, s, t)>>
        /\ \A m \in IMnemonics :
              StartsWith(supplied[1], MnemonicText[m] \o <<" ">>) =>
                 \A t \in ValidRegs, s \in ValidRegs, v \in ValidImms :
                    supplied[1] \in {ILine(m, t, s, Dec(v)), ILine(m, t, s, Hex(v))}
                       => printed = <<IWord(m, t, s, v)>>
        /\ \A m \in MemMnemonics :
              StartsWith(supplied[1], MnemonicText[m] \o <<" ">>) =>
                 \A d \in ValidRegs, b \in ValidRegs, v \in ValidImms :
                    supplied[1] = MLine(m, d, Dec(v), b) =>
                       printed = <<IWord(m, d, b, v)>>
        /\ supplied[1] = MnemonicText["halt"] =>
              printed = <<FormatWord(OPCODES["halt"])>>
        /\ supplied[1] = RLine("and", 0, 1, 2) =>
              printed = << <<"0", "x", "1", "8", "1", "0", ",">> >>
        /\ supplied[1] = ILine("addi", 1, 0, <<"5">>) =>
              printed = << <<"0", "x", "0", "5", "5", "5", ",">> >>
        /\ supplied[1] = MnemonicText["halt"] =>
              printed = << <<"0", "x", "0", "0", "0", "f", ",">> >>

(* "slt r3, r1, r2" has been assembled and its word printed. *)
C2_Witness ==
    /\ FinishedOn(RLine("slt", 3, 1, 2))
    /\ Len(printed) = 1

-----------------------------------------------------------------------------
(* C3 as stated: "lw r2, 3(r0)" is parsed into opcode 0x35 with dest 2,    *)
(* base 0 and offset 3, and encodes to 0x35 | 2<<10 | 0<<12 | 3<<6, which  *)
(* equals 0x0CF5.                                                          *)
C3_LwExampleAsStated ==
    FinishedOn(MLine("lw", 2, <<"3">>, 0)) =>
        /\ Len(instructions) = 1
        /\ instructions[1].opcode = MnemonicText["lw"]
        /\ instructions[1].operands = <<Register(2), Register(0), Immediate(3)>>
        /\ printed = <<IWord("lw", 2, 0, 3)>>
        /\ printed = << <<"0", "x", "0", "c", "f", "5", ",">> >>

(* C3 as amended: "lw r2, 3(r0)" is parsed into opcode 0x35 with dest 2,   *)
(* base 0 and offset 3, and encodes to 0x35 | 2<<10 | 0<<12 | 3<<6, which  *)
(* equals 0x08F5.                                                          *)
C3_LwExample ==
    FinishedOn(MLine("lw", 2, <<"3">>, 0)) =>
        /\ Len(instructions) = 1
        /\ OPCODES["lw"] = 53
        /\ instructions[1].opcode = MnemonicText["lw"]
        /\ instructions[1].operands = <<Register(2), Register(0), Immediate(3)>>
        /\ printed = <<IWord("lw", 2, 0, 3)>>
        /\ printed = << <<"0", "x", "0", "8", "f", "5", ",">> >>

C3_Witness ==
    /\ FinishedOn(MLine("lw", 2, <<"3">>, 0))
    /\ pc = "done"

-----------------------------------------------------------------------------
(* C5: comments never affect the outcome of a line.  For every code text c *)
(* without '#' and every comment text t, the line c#t has the outcome of c *)
(* alone: the same machine word when c assembles, a failure when c fails.  *)
C5_CommentsNeverAffect ==
    \A c \in CodeTexts, t \in CommentTexts :
        FinishedOn(CommentLine(c, t)) =>
            LET alone == LoopBody(<<>>, <<>>, 1, c) IN
            /\ alone.instructions # <<>> =>
                  printed = <<FormatWord(assemble(alone.instructions[1]).val)>>
            /\ alone.diagnostics # <<>> =>
                  printed = <<>> /\ Len(diagnostics) = 1

-----------------------------------------------------------------------------
(* C6: the memory handler accepts exactly "m rD, [offset](rB)".  With D    *)
(* and B in 0..3 and an unsigned offset literal k in 0..15 it yields the   *)
(* operands (Register D, Register B, Immediate k), an absent offset being  *)
(* offset 0; an offset literal above 15 fails with the out-of-range error; *)
(* a second operand of another shape fails with MalformedMemoryOperand.    *)
C6_MemoryHandler ==
    (Finished /\ mode = "file" /\ Len(supplied) = 1) =>
        \A m \in MemMnemonics :
            StartsWith(supplied[1], MnemonicText[m] \o <<" ">>) =>
                /\ \A d \in ValidRegs, b \in ValidRegs, o \in OffsetTexts :
                      supplied[1] = MLine(m, d, o, b) =>
                         IF PlaceValue(o, 10) <= MAX_IMMEDIATE
                         THEN instructions =
                                 <<Instruction("i", MnemonicText[m],
                                               <<Register(d), Register(b),
                                                 Immediate(PlaceValue(o, 10))>>,
                                               NoComment)>>
                         ELSE /\ instructions = <<>>
                              /\ Len(diagnostics) = 1
                              /\ diagnostics[1].kind \in OperandOutOfRange
                /\ \A d \in ValidRegs, x \in BadMemOperands :
                      supplied[1] = MLineRaw(m, d, x) =>
                         /\ instructions = <<>>
                         /\ Len(diagnostics) = 1
                         /\ diagnostics[1].kind \in MalformedMemoryOperand

-----------------------------------------------------------------------------
(* Vocabulary of C7: the operand list as written *)

(* The token is a Register / an Immediate operand. *)
IsRegisterToken(tk) ==
    parse_operand(tk).ok /\ parse_operand(tk).val.kind = "Register"

IsImmediateToken(tk) ==
    parse_operand(tk).ok /\ parse_operand(tk).val.kind = "Immediate"

(* The operands are of the types the handler of m expects. *)
TypesAsExpected(m, ts) ==
    IF m \in RMnemonics
    THEN \A i \in 1..Len(ts) : IsRegisterToken(ts[i])
    ELSE /\ IsRegisterToken(ts[1])
         /\ IsRegisterToken(ts[2])
         /\ IsImmediateToken(ts[3])

(* The first token that does not parse as an operand, 0 when all do. *)
FirstUnparsed(ts) ==
    IF \A i \in 1..Len(ts) : parse_operand(ts[i]).ok THEN 0
    ELSE CHOOSE i \in 1..Len(ts) :
            /\ ~parse_operand(ts[i]).ok
            /\ \A j \in 1..(i - 1) : parse_operand(ts[j]).ok

OneDiagnostic(kinds) ==
    /\ instructions = <<>>
    /\ Len(diagnostics) = 1
    /\ diagnostics[1].kind \in kinds

(* The texts between the ", " separators of a text, in order. *)
RECURSIVE WrittenFrom(_, _)
WrittenFrom(text, cur) ==
    IF text = <<>> THEN <<cur>>
    ELSE IF Len(text) >= 2 /\ text[1] = "," /\ text[2] = " "
    THEN <<cur>> \o WrittenFrom(SubSeq(text, 3, Len(text)), <<>>)
    ELSE WrittenFrom(Tail(text), Append(cur, Head(text)))

(* The operand list written on a line "m t1, t2, ...", none after m alone. *)
WrittenOperands(m, line) ==
    IF Len(line) <= Len(MnemonicText[m]) + 1 THEN <<>>
    ELSE WrittenFrom(SubSeq(line, Len(MnemonicText[m]) + 2, Len(line)), <<>>)

(* The line is mnemonic m followed by the operand list ts of the lists tried. *)
IsOpLine(line, m, ts) == ts \in OperandLists /\ line = OpLine(m, ts)

(* What the claim as stated expects of the line "m ts". *)
ShapeAsStated(m, ts) ==
    /\ Len(ts) # 3 => OneDiagnostic(OperandArityMismatch)
    /\ (Len(ts) = 3 /\ ~TypesAsExpected(m, ts)) =>
          OneDiagnostic(OperandTypeMismatch)

(* What the handlers do with the line "m ts". *)
ShapeAfterParsing(m, ts) ==
    IF FirstUnparsed(ts) # 0
    THEN OneDiagnostic({parse_operand(ts[FirstUnparsed(ts)]).err})
    ELSE IF Len(ts) # 3
    THEN OneDiagnostic(OperandArityMismatch)
    ELSE IF ~TypesAsExpected(m, ts)
    THEN OneDiagnostic(OperandTypeMismatch)
    ELSE Len(instructions) = 1 /\ diagnostics = <<>>

(* C7 as stated: for a register-register line the failure is decided by    *)
(* the shape of the operand list: a count other than 3 fails with the      *)
(* arity error, a count of 3 with an operand that is not a Register fails  *)
(* with the type error; the register-immediate handler does the same with  *)
(* the expected types (Register, Register, Immediate).                     *)
C7_FailureByShapeAsStated ==
    (Finished /\ mode = "file" /\ Len(supplied) = 1) =>
        \A m \in {"add", "addi"} :
            IsOpLine(supplied[1], m, WrittenOperands(m, supplied[1])) =>
                ShapeAsStated(m, WrittenOperands(m, supplied[1]))

(* C7 as amended: the operand tokens are parsed first, left to right, and  *)
(* the first token that does not parse fails the handler with that token's *)
(* own error (malformed or out of range), whatever the count.  When every  *)
(* token parses, the shape decides: a count other than 3 fails with the    *)
(* arity error, a count of 3 with an operand of another type than expected *)
(* fails with the type error, and three operands of the expected types are *)
(* accepted.                                                               *)
C7_FailureByShape ==
    (Finished /\ mode = "file" /\ Len(supplied) = 1) =>
        \A m \in {"add", "addi"} :
            IsOpLine(supplied[1], m, WrittenOperands(m, supplied[1])) =>
                ShapeAfterParsing(m, WrittenOperands(m, supplied[1]))

(* "addi r1, r1, r1": three operands that parse, the third of the wrong    *)
(* type, reported as invalid operands.                                     *)
C7_Witness ==
    /\ FinishedOn(OpLine("addi", <<RegText(1), RegText(1), RegText(1)>>))
    /\ OneDiagnostic({"InvalidOperands"})

-----------------------------------------------------------------------------
(* Vocabulary of C8: where a line handed to the driver stands in the text *)

(* The 1-based position, in the text typed, of its j-th non-blank line *)
(* (from position p on); 0 when there is none.                         *)
RECURSIVE NthNonBlank(_, _, _)
NthNonBlank(text, p, j) ==
    IF p > Len(text) THEN 0
    ELSE IF strip(text[p]) = <<>> THEN NthNonBlank(text, p + 1, j)
    ELSE IF j = 1 THEN p
    ELSE NthNonBlank(text, p + 1, j - 1)

(* The position in the supplied text of line n of the driver's input: a  *)
(* file is handed over whole, the prompt hands over the non-blank lines. *)
SourcePosition(n) == IF mode = "file" THEN n ELSE NthNonBlank(supplied, 1, n)

(* C8: every diagnostic "Line <n>: <message>" carries the 1-based position *)
(* of the offending line in the input text as supplied, for a file and for *)
(* text entered at the prompt (where single blank lines may occur between  *)
(* instructions).                                                          *)
C8_LineNumberIsSourcePosition ==
    \A i \in 1..Len(diagnostics) :
        SourcePosition(diagnostics[i].line_num) = diagnostics[i].line_num

-----------------------------------------------------------------------------
(* Vocabulary of C9 and C10: well-formed instructions and their words *)

OperandsOfClass(x) ==
    CASE x.instr_type = "r" ->
            /\ Len(x.operands) = 3
            /\ \A i \in 1..3 : x.operands[i].kind = "Register"
      [] x.instr_type \in {"i", "j"} ->
            /\ Len(x.operands) = 3
            /\ x.operands[1].kind = "Register"
            /\ x.operands[2].kind = "Register"
            /\ x.operands[3].kind = "Immediate"
      [] x.instr_type = "z" -> x.operands = <<>>
      [] OTHER -> FALSE

OperandInRange(o) ==
    IF o.kind = "Register" THEN o.num \in 0..3
    ELSE o.kind = "Immediate" /\ o.num \in 0..15

WellFormed(x) ==
    /\ \E k \in DOMAIN OPCODES : MnemonicText[k] = x.opcode
    /\ OperandsOfClass(x)
    /\ \A i \in 1..Len(x.operands) : OperandInRange(x.operands[i])

(* C9: every Instruction parse_assembly returns is well formed (its opcode *)
(* a key of the Opcode Table, its operands those of its class, Registers   *)
(* in 0..3, Immediates in 0..15), and Instruction.assemble fails on none.  *)
C9_InstructionsWellFormed ==
    /\ \A i \in 1..Len(instructions) :
          WellFormed(instructions[i]) /\ assemble(instructions[i]).ok
    /\ pc # "crash"

(* Lines with registers and immediates out of range were in the input, and *)
(* the instructions of the other lines have been assembled.                *)
C9_Witness ==
    /\ pc = "done"
    /\ Len(instructions) = 2
    /\ \E i \in 1..Len(diagnostics) : diagnostics[i].kind = "RegisterOutOfRange"

(* The mnemonic whose opcode is in bits 0-5 of the word. *)
MnemonicOfWord(w) == CHOOSE k \in DOMAIN OPCODES : OPCODES[k] = w % 64

(* The fields of a word, read back from its bits. *)
FieldsOfWord(w) ==
    CASE OPCODE_HANDLERS[MnemonicOfWord(w)] = "r" ->
            <<Register((w \div 256) % 4), Register((w \div 4096) % 4),
              Register((w \div 1024) % 4)>>
      [] OPCODE_HANDLERS[MnemonicOfWord(w)] = "zero" -> <<>>
      [] OTHER ->
            <<Register((w \div 1024) % 4), Register((w \div 4096) % 4),
              Immediate((w \div 64) % 16)>>

(* C10: the bit fields of a word never overlap (opcode in bits 0-5, the    *)
(* immediate in bits 6-9 or rd in bits 8-9, rt in bits 10-11, rs in bits   *)
(* 12-13), so every word is below 2^16 and the encoding is injective: the  *)
(* mnemonic and the operand values can be read back from the word.         *)
C10_FieldsDoNotOverlap ==
    /\ \A k \in DOMAIN OPCODES :
          /\ OPCODES[k] < 64
          /\ \A j \in DOMAIN OPCODES : OPCODES[j] = OPCODES[k] => j = k
    /\ \A i \in 1..Len(instructions) :
          LET w == assemble(instructions[i]).val IN
          /\ w < 2 ^ 16
          /\ \E k \in DOMAIN OPCODES : OPCODES[k] = w % 64
          /\ MnemonicText[MnemonicOfWord(w)] = instructions[i].opcode
          /\ FieldsOfWord(w) = instructions[i].operands
          /\ w = OPCODES[MnemonicOfWord(w)]
                 + (IF OPCODE_HANDLERS[MnemonicOfWord(w)] = "r"
                    THEN 256 * instructions[i].operands[1].num
                         + 4096 * instructions[i].operands[2].num
                         + 1024 * instructions[i].operands[3].num
                    ELSE IF OPCODE_HANDLERS[MnemonicOfWord(w)] = "zero" THEN 0
                    ELSE 1024 * instructions[i].operands[1].num
                         + 4096 * instructions[i].operands[2].num
                         + 64 * instructions[i].operands[3].num)

(* "blt r3, r3, 15": every field at its largest value. *)
C10_Witness ==
    /\ FinishedOn(ILine("blt", 3, 3, Dec(15)))
    /\ Len(instructions) = 1
    /\ instructions[1].operands = <<Register(3), Register(3), Immediate(15)>>

=============================================================================
